---------------------------- MODULE Spec2Model ----------------------------
(***************************************************************************)
(* A model of songle.py: the key-case converter (_to_snake_case,           *)
(* _convert_keys_to_snake_case), the generic record mapper (_from_dict)    *)
(* over the dataclasses of the library, and the HTTP client (Songle._get,  *)
(* _fetch_and_parse, _fetch_and_parse_list and the public operations).     *)
(*                                                                         *)
(* The library keeps no state between calls.  A state of the model is one  *)
(* call: the function called, its arguments and what the call produced     *)
(* (a returned value or a raised exception).                               *)
(*                                                                         *)
(* Representation:                                                         *)
(*   - a Python str that the code inspects character by character (a key,  *)
(*     a field name) is a sequence of one-character strings;               *)
(*   - a JSON value is a tagged record: Null, Sc(n) (a scalar leaf, which  *)
(*     the code never inspects), Li(<<v1, ...>>) (a list) and              *)
(*     Di(<< <<k1, v1>>, ... >>) (a dict: its items in insertion order,   *)
(*     the keys pairwise distinct);                                        *)
(*   - a dataclass instance is Obj(cls, f), f a function from the field    *)
(*     names given to the constructor to their values;                     *)
(*   - a raised exception is Raise(kind, ...).                             *)
(***************************************************************************)
EXTENDS Integers, Sequences, FiniteSets, TLC

VARIABLES
    call,      \* the function or method called, "none" between calls
    args,      \* its arguments
    http,      \* the HTTP exchange of the call: the request sent, what the
               \* transport did with it and the HTTP library in use
    result     \* what the call returned or raised

vars == <<call, args, http, result>>

(***************************************************************************)
(* Bounds of the model.                                                    *)
(***************************************************************************)
\* longest identifier given to _to_snake_case
MaxLen == 5

\* longest list of a generated JSON value
MaxList == 2

(***************************************************************************)
(* Characters.                                                             *)
(***************************************************************************)
LowerSeq == <<"a","b","c","d","e","f","g","h","i","j","k","l","m",
              "n","o","p","q","r","s","t","u","v","w","x","y","z">>

UpperSeq == <<"A","B","C","D","E","F","G","H","I","J","K","L","M",
              "N","O","P","Q","R","S","T","U","V","W","X","Y","Z">>

\* the character class [a-z]
IsLower(c) == \E i \in 1..Len(LowerSeq) : LowerSeq[i] = c

\* the character class [A-Z]
IsUpper(c) == \E i \in 1..Len(UpperSeq) : UpperSeq[i] = c

\* the character class [0-9]
IsDigit(c) == c \in {"0","1","2","3","4","5","6","7","8","9"}

\* the character class [a-z0-9]
IsLowerOrDigit(c) == IsLower(c) \/ IsDigit(c)

\* the regex atom "." (any character but a newline)
IsAnyChar(c) == c # "\n"

\* str.lower() on one character
LowerChar(c) ==
    IF IsUpper(c)
    THEN LowerSeq[CHOOSE i \in 1..Len(UpperSeq) : UpperSeq[i] = c]
    ELSE c

\* StrLower with a fault: the result is not lowercased
StrLowerForgotten(s) == s

\* str.lower()
StrLower(s) == [i \in 1..Len(s) |-> LowerChar(s[i])]

(***************************************************************************)
(* _to_snake_case: two passes of re.sub, then lower().  re.sub replaces    *)
(* the leftmost non-overlapping matches, scanning from left to right; a    *)
(* position where the pattern does not match copies one character.         *)
(***************************************************************************)
\* the end of the greedy run [a-z]+ that starts at position i (i - 1 if none)
RECURSIVE LowerRunEnd(_, _)
LowerRunEnd(s, i) ==
    IF i <= Len(s) /\ IsLower(s[i]) THEN LowerRunEnd(s, i + 1) ELSE i - 1

\* whether (.)([A-Z][a-z]+) matches at position i
FirstPatternMatches(s, i) ==
    /\ i + 2 <= Len(s)
    /\ IsAnyChar(s[i])
    /\ IsUpper(s[i + 1])
    /\ IsLower(s[i + 2])

\* re.sub("(.)([A-Z][a-z]+)", r"\1_\2", s), from position i on
RECURSIVE FirstPassFrom(_, _)
FirstPassFrom(s, i) ==
    IF i > Len(s) THEN <<>>
    ELSE IF FirstPatternMatches(s, i)
         THEN LET j == LowerRunEnd(s, i + 2)
              IN  <<s[i], "_">> \o SubSeq(s, i + 1, j) \o FirstPassFrom(s, j + 1)
         ELSE <<s[i]>> \o FirstPassFrom(s, i + 1)

FirstPass(s) == FirstPassFrom(s, 1)

\* SecondPatternMatches with a fault: the class is [a-z], digits forgotten
SecondPatternWithoutDigits(s, i) ==
    /\ i + 1 <= Len(s)
    /\ IsLower(s[i])
    /\ IsUpper(s[i + 1])

\* whether ([a-z0-9])([A-Z]) matches at position i
SecondPatternMatches(s, i) ==
    /\ i + 1 <= Len(s)
    /\ IsLowerOrDigit(s[i])
    /\ IsUpper(s[i + 1])

\* re.sub("([a-z0-9])([A-Z])", r"\1_\2", s), from position i on
RECURSIVE SecondPassFrom(_, _)
SecondPassFrom(s, i) ==
    IF i > Len(s) THEN <<>>
    ELSE IF SecondPatternMatches(s, i)
         THEN <<s[i], "_", s[i + 1]>> \o SecondPassFrom(s, i + 2)
         ELSE <<s[i]>> \o SecondPassFrom(s, i + 1)

SecondPass(s) == SecondPassFrom(s, 1)

ToSnakeCase(ident) == StrLower(SecondPass(FirstPass(ident)))

(***************************************************************************)
(* Identifiers given to _to_snake_case.                                    *)
(***************************************************************************)
\* a lowercase letter, two uppercase letters, a digit and the underscore
Alphabet == {"a", "b", "A", "B", "1", "_"}

BoundedIdentifiers == UNION {[1..n -> Alphabet] : n \in 0..MaxLen}

\* the identifiers of the service's responses and requests that hold more
\* than one word
startedAt == <<"s","t","a","r","t","e","d","A","t">>
createdAt == <<"c","r","e","a","t","e","d","A","t">>
updatedAt == <<"u","p","d","a","t","e","d","A","t">>
recognizedAt == <<"r","e","c","o","g","n","i","z","e","d","A","t">>
revisionId == <<"r","e","v","i","s","i","o","n","I","d">>
isChorus == <<"i","s","C","h","o","r","u","s">>
rmsAmplitude == <<"r","m","s","A","m","p","l","i","t","u","d","e">>
chorusSegments == <<"c","h","o","r","u","s","S","e","g","m","e","n","t","s">>
repeatSegments == <<"r","e","p","e","a","t","S","e","g","m","e","n","t","s">>

ServiceIdentifiers ==
    {startedAt, createdAt, updatedAt, recognizedAt, revisionId, isChorus,
     rmsAmplitude, chorusSegments, repeatSegments}

(***************************************************************************)
(* JSON values, as the JSON decoder hands them to the library.             *)
(***************************************************************************)
\* None
Null == [t |-> "null"]

\* a number: a leaf the code copies and never inspects
Sc(n) == [t |-> "scalar", s |-> n]

\* a list
Li(xs) == [t |-> "list", items |-> xs]

\* a dict: its items in insertion order, keys pairwise distinct
Di(es) == [t |-> "dict", entries |-> es]

IsDict(v) == v.t = "dict"

IsList(v) == v.t = "list"

HasKey(es, k) == \E i \in 1..Len(es) : es[i][1] = k

\* d[k] = v on a dict: a key already present keeps its place and takes the
\* new value, a new key goes last
DictSet(es, k, v) ==
    IF HasKey(es, k)
    THEN [i \in 1..Len(es) |-> IF es[i][1] = k THEN <<k, v>> ELSE es[i]]
    ELSE Append(es, <<k, v>>)

(***************************************************************************)
(* _convert_keys_to_snake_case                                             *)
(***************************************************************************)
RECURSIVE ConvertKeys(_)
RECURSIVE ConvertItemsFrom(_, _, _)

\* the dict comprehension {_to_snake_case(k): convert(v) for k, v in items},
\* from item i on, acc being the dict built so far
ConvertItemsFrom(es, i, acc) ==
    IF i > Len(es) THEN acc
    ELSE ConvertItemsFrom(es, i + 1,
             DictSet(acc, ToSnakeCase(es[i][1]), ConvertKeys(es[i][2])))

\* ConvertKeys with a fault: the elements of a list are not converted
ConvertKeysListsSkipped(data) ==
    IF IsDict(data) THEN Di(ConvertItemsFrom(data.entries, 1, <<>>))
    ELSE data

ConvertKeys(data) ==
    IF IsDict(data) THEN Di(ConvertItemsFrom(data.entries, 1, <<>>))
    ELSE IF IsList(data)
         THEN Li([i \in 1..Len(data.items) |-> ConvertKeys(data.items[i])])
         ELSE data

(***************************************************************************)
(* JSON values given to _convert_keys_to_snake_case: scalars, and lists    *)
(* and dicts nested two deep.  Two of the keys convert to the same         *)
(* identifier.                                                             *)
(***************************************************************************)
KeyAB == <<"a","B">>
KeyA_b == <<"a","_","b">>
KeyCD == <<"c","D">>

NestedKeys == {KeyAB, KeyA_b, KeyCD}

LeafValues == {Sc(0), Sc(1)}

ListsOver(S) == UNION {[1..n -> S] : n \in 0..MaxList}

\* the items of the dicts of at most two keys with values in S
ItemsOver(S) ==
    {<<>>}
    \cup {<< <<k, v>> >> : k \in NestedKeys, v \in S}
    \cup {<< <<kv[1], vv[1]>>, <<kv[2], vv[2]>> >> :
              kv \in {x \in NestedKeys \X NestedKeys : x[1] # x[2]},
              vv \in S \X S}

NestedOnce ==
    LeafValues
    \cup {Li(xs) : xs \in ListsOver(LeafValues)}
    \cup {Di(es) : es \in ItemsOver(LeafValues)}

NestedTwice ==
    NestedOnce
    \cup {Li(<<x>>) : x \in NestedOnce}
    \cup {Li(xy) : xy \in NestedOnce \X NestedOnce}
    \cup {Di(es) : es \in ItemsOver(NestedOnce)}

(***************************************************************************)
(* The dataclasses: the names of their fields and, of each field, whether  *)
(* its type is a dataclass, a list of a dataclass or anything else.  No    *)
(* field of the library has a default value.                               *)
(***************************************************************************)
id == <<"i","d">>
name == <<"n","a","m","e">>
title == <<"t","i","t","l","e">>
url == <<"u","r","l">>
permalink == <<"p","e","r","m","a","l","i","n","k">>
artist == <<"a","r","t","i","s","t">>
duration == <<"d","u","r","a","t","i","o","n">>
code == <<"c","o","d","e">>
rms_amplitude == <<"r","m","s","_","a","m","p","l","i","t","u","d","e">>
created_at == <<"c","r","e","a","t","e","d","_","a","t">>
updated_at == <<"u","p","d","a","t","e","d","_","a","t">>
recognized_at == <<"r","e","c","o","g","n","i","z","e","d","_","a","t">>
index == <<"i","n","d","e","x">>
start == <<"s","t","a","r","t">>
count == <<"c","o","u","n","t">>
position == <<"p","o","s","i","t","i","o","n">>
bpm == <<"b","p","m">>
beats == <<"b","e","a","t","s">>
chords == <<"c","h","o","r","d","s">>
notes == <<"n","o","t","e","s">>
is_chorus == <<"i","s","_","c","h","o","r","u","s">>
repeats == <<"r","e","p","e","a","t","s">>
chorus_segments == <<"c","h","o","r","u","s","_","s","e","g","m","e","n","t","s">>
repeat_segments == <<"r","e","p","e","a","t","_","s","e","g","m","e","n","t","s">>

\* a field whose type is no dataclass and no list of a dataclass
Scalar(n) == [name |-> n, kind |-> "scalar", of |-> ""]

\* a field whose type is the dataclass m
Nested(n, m) == [name |-> n, kind |-> "nested", of |-> m]

\* a field whose type is list[m], m a dataclass
ListOf(n, m) == [name |-> n, kind |-> "list", of |-> m]

ArtistFields ==
    <<Scalar(id), Scalar(name)>>

SongFields ==
    <<Scalar(id), Scalar(title), Scalar(url), Scalar(permalink),
      Nested(artist, "Artist"), Scalar(duration), Scalar(code),
      Scalar(rms_amplitude), Scalar(created_at), Scalar(updated_at),
      Scalar(recognized_at)>>

BeatFields ==
    <<Scalar(index), Scalar(start), Scalar(count), Scalar(position),
      Scalar(bpm)>>

BeatInfoFields ==
    <<ListOf(beats, "Beat")>>

RevisionFields ==
    <<Scalar(id), Scalar(created_at), Scalar(updated_at)>>

ChordFields ==
    <<Scalar(index), Scalar(start), Scalar(duration), Scalar(name)>>

ChordInfoFields ==
    <<ListOf(chords, "Chord")>>

NoteFields ==
    <<Scalar(index), Scalar(start), Scalar(duration)>>

MelodyInfoFields ==
    <<ListOf(notes, "Note")>>

RepeatFields ==
    <<Scalar(index), Scalar(start), Scalar(duration)>>

ChorusSegmentFields ==
    <<Scalar(index), Scalar(is_chorus), Scalar(duration),
      ListOf(repeats, "Repeat")>>

RepeatSegmentFields ==
    <<Scalar(index), Scalar(is_chorus), Scalar(duration),
      ListOf(repeats, "Repeat")>>

ChorusInfoFields ==
    <<ListOf(chorus_segments, "ChorusSegment"),
      ListOf(repeat_segments, "RepeatSegment")>>

Dataclasses ==
    {"Artist", "Song", "Beat", "BeatInfo", "Revision",
     "Chord", "ChordInfo", "Note", "MelodyInfo", "Repeat",
     "ChorusSegment", "RepeatSegment", "ChorusInfo"}

\* dataclasses.fields(model)
Fields(model) ==
    CASE model = "Artist" -> ArtistFields
      [] model = "Song" -> SongFields
      [] model = "Beat" -> BeatFields
      [] model = "BeatInfo" -> BeatInfoFields
      [] model = "Revision" -> RevisionFields
      [] model = "Chord" -> ChordFields
      [] model = "ChordInfo" -> ChordInfoFields
      [] model = "Note" -> NoteFields
      [] model = "MelodyInfo" -> MelodyInfoFields
      [] model = "Repeat" -> RepeatFields
      [] model = "ChorusSegment" -> ChorusSegmentFields
      [] model = "RepeatSegment" -> RepeatSegmentFields
      [] model = "ChorusInfo" -> ChorusInfoFields

\* the keys of field_types
FieldNames(model) == {Fields(model)[i].name : i \in 1..Len(Fields(model))}

\* field_types[key], as the field's description
FieldNamed(model, key) ==
    Fields(model)[CHOOSE i \in 1..Len(Fields(model)) : Fields(model)[i].name = key]

(***************************************************************************)
(* Exceptions and instances.                                               *)
(***************************************************************************)
IsRaise(v) == v.t = "raise"

\* raise TypeError(f"Expected a dataclass type, but got {model}.")
NotADataclassError(model) ==
    [t |-> "raise", kind |-> "TypeError",
     what |-> "Expected a dataclass type", cls |-> model, names |-> {}]

\* what model(**kwargs) raises when required arguments are missing
MissingArgumentsError(model, missing) ==
    [t |-> "raise", kind |-> "TypeError",
     what |-> "missing required positional arguments", cls |-> model,
     names |-> missing]

\* what data.items() raises when data is no dict
NoItemsError ==
    [t |-> "raise", kind |-> "AttributeError",
     what |-> "object has no attribute 'items'", cls |-> "", names |-> {}]

\* an instance of the dataclass model
Obj(model, kw) == [t |-> "obj", cls |-> model, fields |-> kw]

\* kwargs[key] = value
KwSet(kw, key, value) ==
    [k \in (DOMAIN kw) \cup {key} |-> IF k = key THEN value ELSE kw[k]]

\* model(**kwargs): the generated __init__ requires every field
Construct(model, kw) ==
    LET missing == FieldNames(model) \ DOMAIN kw
    IN  IF missing # {} THEN MissingArgumentsError(model, missing)
        ELSE Obj(model, kw)

(***************************************************************************)
(* _from_dict                                                              *)
(***************************************************************************)
\* origin is list and args and dataclasses.is_dataclass(args[0])
IsListField(field) == field.kind = "list"

\* IsNestedField with a fault: no field is taken for a dataclass
IsNestedFieldNever(field) == FALSE

\* isinstance(field_type, type) and dataclasses.is_dataclass(field_type)
IsNestedField(field) == field.kind = "nested"

\* ListAdd with a fault: the element goes first
ListAddFirst(acc, r) == <<r>> \o acc

\* the list comprehension adds r to the list built so far
ListAdd(acc, r) == Append(acc, r)

RECURSIVE FromDict(_, _)
RECURSIVE FromItems(_, _, _, _)
RECURSIVE FromList(_, _, _, _)

\* [_from_dict(element_type, item) for item in value], from item i on
FromList(element_type, value, i, acc) ==
    IF i > Len(value) THEN Li(acc)
    ELSE LET r == FromDict(element_type, value[i])
         IN  IF IsRaise(r) THEN r
             ELSE FromList(element_type, value, i + 1, ListAdd(acc, r))

\* the loop over data.items(), from item i on, kw being kwargs so far
FromItems(model, es, i, kw) ==
    IF i > Len(es) THEN [t |-> "kwargs", kw |-> kw]
    ELSE LET key == es[i][1]
             value == es[i][2]
         IN  IF key \notin FieldNames(model)
             THEN FromItems(model, es, i + 1, kw)
             ELSE LET field == FieldNamed(model, key)
                  IN  IF IsListField(field)
                      THEN IF IsList(value)
                           THEN LET r == FromList(field.of, value.items, 1, <<>>)
                                IN  IF IsRaise(r) THEN r
                                    ELSE FromItems(model, es, i + 1,
                                                   KwSet(kw, key, r))
                           ELSE FromItems(model, es, i + 1, kw)
                      ELSE IF IsNestedField(field)
                      THEN IF IsDict(value)
                           THEN LET r == FromDict(field.of, value)
                                IN  IF IsRaise(r) THEN r
                                    ELSE FromItems(model, es, i + 1,
                                                   KwSet(kw, key, r))
                           ELSE FromItems(model, es, i + 1, kw)
                      ELSE FromItems(model, es, i + 1, KwSet(kw, key, value))

FromDict(model, data) ==
    IF model \notin Dataclasses THEN NotADataclassError(model)
    ELSE IF ~IsDict(data) THEN NoItemsError
    ELSE LET r == FromItems(model, data.entries, 1, <<>>)
         IN  IF IsRaise(r) THEN r ELSE Construct(model, r.kw)

(***************************************************************************)
(* The inputs of _from_dict: for each dataclass the documents that supply  *)
(* every field, the same with one field dropped or set to a value of       *)
(* another shape, and with a key the dataclass does not declare.           *)
(***************************************************************************)
Seeds == {0, 1}

SeedSeqs == UNION {[1..n -> Seeds] : n \in 0..MaxList}

RECURSIVE FullDoc(_, _, _)

\* the value of field i of a full document: field i of a record seeded n
\* holds the number n + i, a list field one element per seed of seq
FullValue(field, i, n, seq) ==
    IF field.kind = "scalar" THEN Sc(n + i)
    ELSE IF field.kind = "nested" THEN FullDoc(field.of, n, seq)
    ELSE Li([j \in 1..Len(seq) |-> FullDoc(field.of, seq[j], seq)])

FullDoc(model, n, seq) ==
    Di([i \in 1..Len(Fields(model)) |->
           <<Fields(model)[i].name, FullValue(Fields(model)[i], i, n, seq)>>])

\* values of a shape the field may not expect
OddValues == {Null, Sc(9), Li(<<>>), Li(<<Sc(0)>>), Di(<<>>)}

Changes(model) ==
    {[op |-> "none", at |-> 0, to |-> Null]}
    \cup {[op |-> "drop", at |-> i, to |-> Null] : i \in 1..Len(Fields(model))}
    \cup {[op |-> "set", at |-> i, to |-> v] :
              i \in 1..Len(Fields(model)), v \in OddValues}

ApplyChange(es, ch) ==
    IF ch.op = "drop" THEN SubSeq(es, 1, ch.at - 1) \o SubSeq(es, ch.at + 1, Len(es))
    ELSE IF ch.op = "set"
         THEN [i \in 1..Len(es) |-> IF i = ch.at THEN <<es[i][1], ch.to>> ELSE es[i]]
         ELSE es

\* a key no dataclass declares
unused_future_field ==
    <<"u","n","u","s","e","d","_","f","u","t","u","r","e","_","f","i","e","l","d">>

ExtraPlacements == {"none", "first", "last"}

WithExtra(es, where) ==
    IF where = "first" THEN <<<<unused_future_field, Sc(1)>>>> \o es
    ELSE IF where = "last" THEN Append(es, <<unused_future_field, Sc(1)>>)
    ELSE es

\* a type that is no dataclass
NotADataclass == "int"

Models == Dataclasses \cup {NotADataclass}

DocsFor(model) ==
    IF model \in Dataclasses
    THEN {Di(WithExtra(ApplyChange(FullDoc(model, n, seq).entries, ch), ex)) :
              n \in Seeds, seq \in SeedSeqs, ch \in Changes(model),
              ex \in ExtraPlacements}
         \cup {Null, Li(<<>>)}
    ELSE {Di(<<>>), FullDoc("Artist", 0, <<>>)}

(***************************************************************************)
(* The transport (requests.Session.get) and the responses of the service.  *)
(***************************************************************************)
\* what response.json() finds in a body that is no JSON document
NotJson == [t |-> "notjson"]

\* the session raised before any response was obtained: ConnectionError,
\* Timeout, ... (subclasses of requests.exceptions.RequestException)
TransportFailures ==
    {[kind |-> "failure", error |-> "Connection refused"],
     [kind |-> "failure", error |-> "Read timed out"]}

Response(status, text, json) ==
    [kind |-> "response", status |-> status, text |-> text, json |-> json]

\* the status codes the service answers with
Statuses == {200, 201, 304, 404, 500}

\* the external name of a field: the service writes the names of more than
\* one word in camelCase
ExternalName(key) ==
    CASE key = rms_amplitude -> rmsAmplitude
      [] key = created_at -> createdAt
      [] key = updated_at -> updatedAt
      [] key = recognized_at -> recognizedAt
      [] key = is_chorus -> isChorus
      [] key = chorus_segments -> chorusSegments
      [] key = repeat_segments -> repeatSegments
      [] OTHER -> key

\* a document as the service writes it
RECURSIVE Externalized(_)
Externalized(v) ==
    IF IsDict(v)
    THEN Di([i \in 1..Len(v.entries) |->
                <<ExternalName(v.entries[i][1]), Externalized(v.entries[i][2])>>])
    ELSE IF IsList(v)
         THEN Li([i \in 1..Len(v.items) |-> Externalized(v.items[i])])
         ELSE v

\* the changes of a document the service may send: those of its first field
ServiceChanges(model) == {ch \in Changes(model) : ch.at <= 1}

\* the documents of an endpoint that answers with one record
RecordDocs(model) ==
    {Externalized(Di(WithExtra(ApplyChange(FullDoc(model, n, seq).entries, ch), ex))) :
         n \in Seeds, seq \in SeedSeqs, ch \in ServiceChanges(model),
         ex \in {"none", "last"}}

\* the documents of an endpoint that answers with a list of records, and
\* documents of another shape
ListDocs(model) ==
    {Externalized(Li([j \in 1..Len(seq) |->
         Di(ApplyChange(FullDoc(model, seq[j], <<>>).entries,
                        IF j = 1 THEN ch ELSE [op |-> "none", at |-> 0, to |-> Null]))])) :
         seq \in SeedSeqs, ch \in ServiceChanges(model)}
    \cup {Null, Di(<<>>), Externalized(FullDoc(model, 0, <<>>))}

\* the bodies that are no JSON document
PlainBodies == {"not found", ""}

\* what the transport may do with a request whose documents are docs
Outcomes(docs) ==
    TransportFailures
    \cup {Response(st, text, NotJson) : st \in Statuses, text \in PlainBodies}
    \cup {Response(st, "<json>", doc) : st \in Statuses, doc \in docs}

\* The class of the exception response.json() raises on a body that is no
\* JSON document depends on the installed requests: from 2.27 on it is
\* requests.exceptions.JSONDecodeError, a subclass of RequestException;
\* before, it is json.JSONDecodeError, a ValueError.
JsonErrorClasses == {"requests.exceptions.JSONDecodeError", "json.JSONDecodeError"}

NoExchange == [request |-> <<>>, outcome |-> <<>>, jsonError |-> ""]

(***************************************************************************)
(* Songle._get                                                             *)
(***************************************************************************)
\* the sentinel status of "Request failed" errors
RequestFailedStatus == 500

\* raise SongleApiException(status_code, message)
SongleApiException(status_code, message) ==
    [t |-> "raise", kind |-> "SongleApiException",
     status_code |-> status_code, message |-> message]

\* str(e) of the exception response.json() raises on these bodies
DecodeErrorText == "Expecting value: line 1 column 1 (char 0)"

\* the exception of response.json() when it is no RequestException
JSONDecodeError ==
    [t |-> "raise", kind |-> "JSONDecodeError",
     what |-> DecodeErrorText, cls |-> "", names |-> {}]

\* response.raise_for_status() raises HTTPError
RaisesForStatus(status) == 400 <= status /\ status < 600

\* _BASE_URL + path
BuildUrl(path) == "https://widget.songle.jp/" \o path

\* what _get returns or raises, given what the transport did
Get(outcome, jsonError) ==
    IF outcome.kind = "failure"
    THEN SongleApiException(RequestFailedStatus, "Request failed: " \o outcome.error)
    ELSE IF RaisesForStatus(outcome.status)
    THEN SongleApiException(outcome.status,
                            "Error response from API: " \o outcome.text)
    ELSE IF outcome.json = NotJson
    THEN IF jsonError = "requests.exceptions.JSONDecodeError"
         THEN SongleApiException(RequestFailedStatus,
                                 "Request failed: " \o DecodeErrorText)
         ELSE JSONDecodeError
    ELSE outcome.json

(***************************************************************************)
(* Songle._fetch_and_parse, Songle._fetch_and_parse_list                   *)
(***************************************************************************)
\* what iterating a value that is no list and no dict raises
NotIterableError ==
    [t |-> "raise", kind |-> "TypeError",
     what |-> "object is not iterable", cls |-> "", names |-> {}]

FetchAndParse(model, raw_data) ==
    IF IsRaise(raw_data) THEN raw_data
    ELSE FromDict(model, ConvertKeys(raw_data))

\* [_from_dict(model, item) for item in converted_data]: a list gives its
\* elements, a dict its keys (strings, which have no items()), a number or
\* None is not iterable
FetchAndParseList(model, raw_data) ==
    IF IsRaise(raw_data) THEN raw_data
    ELSE LET converted_data == ConvertKeys(raw_data)
         IN  IF IsList(converted_data)
             THEN FromList(model, converted_data.items, 1, <<>>)
             ELSE IF IsDict(converted_data)
             THEN IF Len(converted_data.entries) = 0 THEN Li(<<>>)
                  ELSE NoItemsError
             ELSE NotIterableError

(***************************************************************************)
(* The calls.  Each action is one call, from its arguments to what it      *)
(* returns or raises.                                                      *)
(***************************************************************************)
Init ==
    /\ call = "none"
    /\ args = <<>>
    /\ http = NoExchange
    /\ result = <<>>

CallToSnakeCase ==
    /\ call = "none"
    /\ \E ident \in BoundedIdentifiers \cup ServiceIdentifiers :
           /\ call' = "_to_snake_case"
           /\ args' = <<ident>>
           /\ http' = NoExchange
           /\ result' = ToSnakeCase(ident)

CallConvertKeys ==
    /\ call = "none"
    /\ \E data \in NestedTwice :
           /\ call' = "_convert_keys_to_snake_case"
           /\ args' = <<data>>
           /\ http' = NoExchange
           /\ result' = ConvertKeys(data)

CallFromDict ==
    /\ call = "none"
    /\ \E model \in Models :
           \E data \in DocsFor(model) :
               /\ call' = "_from_dict"
               /\ args' = <<model, data>>
               /\ http' = NoExchange
               /\ result' = FromDict(model, data)

\* the source URLs of the callers
Urls == {"https://example.org/song"}

\* the search strings of the callers
Queries == {"a song"}

\* revision_id: None (no number) or a number
NoRevision == <<>>

RevisionIds == {NoRevision, <<7>>}

\* params = {"url": url}, and params["revision_id"] = str(revision_id) when
\* a revision is given
MapParams(song_url, revision_id) ==
    IF revision_id = NoRevision THEN <<<<"url", song_url>>>>
    ELSE <<<<"url", song_url>>, <<"revision_id", ToString(revision_id[1])>>>>

\* the exchange of a call: self._session.get(url, params=params) and what
\* came of it
Exchange(path, params, outcome, jsonError) ==
    [request |-> <<BuildUrl(path), params>>, outcome |-> outcome,
     jsonError |-> jsonError]

GetSongInfo ==
    /\ call = "none"
    /\ \E song_url \in Urls,
          outcome \in Outcomes(RecordDocs("Song")),
          jsonError \in JsonErrorClasses :
           /\ call' = "get_song_info"
           /\ args' = <<song_url>>
           /\ http' = Exchange("api/v1/song.json",
                               <<<<"url", song_url>>>>, outcome, jsonError)
           /\ result' = FetchAndParse("Song", Get(outcome, jsonError))

GetBeats ==
    /\ call = "none"
    /\ \E song_url \in Urls, revision_id \in RevisionIds,
          outcome \in Outcomes(RecordDocs("BeatInfo")),
          jsonError \in JsonErrorClasses :
           /\ call' = "get_beats"
           /\ args' = <<song_url, revision_id>>
           /\ http' = Exchange("api/v1/song/beat.json",
                               MapParams(song_url, revision_id), outcome, jsonError)
           /\ result' = FetchAndParse("BeatInfo", Get(outcome, jsonError))

GetBeatRevisions ==
    /\ call = "none"
    /\ \E song_url \in Urls,
          outcome \in Outcomes(ListDocs("Revision")),
          jsonError \in JsonErrorClasses :
           /\ call' = "get_beat_revisions"
           /\ args' = <<song_url>>
           /\ http' = Exchange("api/v1/song/beat_revisions.json",
                               <<<<"url", song_url>>>>, outcome, jsonError)
           /\ result' = FetchAndParseList("Revision", Get(outcome, jsonError))

GetChords ==
    /\ call = "none"
    /\ \E song_url \in Urls, revision_id \in RevisionIds,
          outcome \in Outcomes(RecordDocs("ChordInfo")),
          jsonError \in JsonErrorClasses :
           /\ call' = "get_chords"
           /\ args' = <<song_url, revision_id>>
           /\ http' = Exchange("api/v1/song/chord.json",
                               MapParams(song_url, revision_id), outcome, jsonError)
           /\ result' = FetchAndParse("ChordInfo", Get(outcome, jsonError))

GetChordRevisions ==
    /\ call = "none"
    /\ \E song_url \in Urls,
          outcome \in Outcomes(ListDocs("Revision")),
          jsonError \in JsonErrorClasses :
           /\ call' = "get_chord_revisions"
           /\ args' = <<song_url>>
           /\ http' = Exchange("api/v1/song/chord_revisions.json",
                               <<<<"url", song_url>>>>, outcome, jsonError)
           /\ result' = FetchAndParseList("Revision", Get(outcome, jsonError))

GetMelody ==
    /\ call = "none"
    /\ \E song_url \in Urls, revision_id \in RevisionIds,
          outcome \in Outcomes(RecordDocs("MelodyInfo")),
          jsonError \in JsonErrorClasses :
           /\ call' = "get_melody"
           /\ args' = <<song_url, revision_id>>
           /\ http' = Exchange("api/v1/song/melody.json",
                               MapParams(song_url, revision_id), outcome, jsonError)
           /\ result' = FetchAndParse("MelodyInfo", Get(outcome, jsonError))

GetMelodyRevisions ==
    /\ call = "none"
    /\ \E song_url \in Urls,
          outcome \in Outcomes(ListDocs("Revision")),
          jsonError \in JsonErrorClasses :
           /\ call' = "get_melody_revisions"
           /\ args' = <<song_url>>
           /\ http' = Exchange("api/v1/song/melody_revisions.json",
                               <<<<"url", song_url>>>>, outcome, jsonError)
           /\ result' = FetchAndParseList("Revision", Get(outcome, jsonError))

GetChorus ==
    /\ call = "none"
    /\ \E song_url \in Urls, revision_id \in RevisionIds,
          outcome \in Outcomes(RecordDocs("ChorusInfo")),
          jsonError \in JsonErrorClasses :
           /\ call' = "get_chorus"
           /\ args' = <<song_url, revision_id>>
           /\ http' = Exchange("api/v1/song/chorus.json",
                               MapParams(song_url, revision_id), outcome, jsonError)
           /\ result' = FetchAndParse("ChorusInfo", Get(outcome, jsonError))

GetChorusRevisions ==
    /\ call = "none"
    /\ \E song_url \in Urls,
          outcome \in Outcomes(ListDocs("Revision")),
          jsonError \in JsonErrorClasses :
           /\ call' = "get_chorus_revisions"
           /\ args' = <<song_url>>
           /\ http' = Exchange("api/v1/song/chorus_revisions.json",
                               <<<<"url", song_url>>>>, outcome, jsonError)
           /\ result' = FetchAndParseList("Revision", Get(outcome, jsonError))

SearchSongs ==
    /\ call = "none"
    /\ \E query \in Queries,
          outcome \in Outcomes(ListDocs("Song")),
          jsonError \in JsonErrorClasses :
           /\ call' = "search_songs"
           /\ args' = <<query>>
           /\ http' = Exchange("api/v1/songs/search.json",
                               <<<<"q", query>>>>, outcome, jsonError)
           /\ result' = FetchAndParseList("Song", Get(outcome, jsonError))

\* the caller takes the result; the library keeps nothing of the call
Return ==
    /\ call # "none"
    /\ call' = "none"
    /\ args' = <<>>
    /\ http' = NoExchange
    /\ result' = <<>>

Next ==
    \/ CallToSnakeCase
    \/ CallConvertKeys
    \/ CallFromDict
    \/ GetSongInfo
    \/ GetBeats
    \/ GetBeatRevisions
    \/ GetChords
    \/ GetChordRevisions
    \/ GetMelody
    \/ GetMelodyRevisions
    \/ GetChorus
    \/ GetChorusRevisions
    \/ SearchSongs
    \/ Return

Spec == Init /\ [][Next]_vars


(***************************************************************************)
(* What the properties below speak of.                                     *)
(***************************************************************************)
\* the public operations of the client
RecordOperations ==
    {"get_song_info", "get_beats", "get_chords", "get_melody", "get_chorus"}

ListOperations ==
    {"get_beat_revisions", "get_chord_revisions", "get_melody_revisions",
     "get_chorus_revisions", "search_songs"}

PublicOperations == RecordOperations \cup ListOperations

\* the dataclass of the elements a list operation answers with
ElementModel(op) == IF op = "search_songs" THEN "Song" ELSE "Revision"

\* the value a dict holds for a key
Lookup(es, k) == es[CHOOSE i \in 1..Len(es) : es[i][1] = k][2]

\* the items of a dict whose keys are fields of the dataclass
KnownItems(model, es) == SelectSeq(es, LAMBDA e : e[1] \in FieldNames(model))

\* the fields that data gives have values of their kinds, at every depth,
\* and data misses none of the fields of a record below it
RECURSIVE Supplies(_, _)
RECURSIVE SuppliesWhatItGives(_, _)
SuppliesWhatItGives(model, data) ==
    /\ IsDict(data)
    /\ \A i \in 1..Len(Fields(model)) :
           LET field == Fields(model)[i]
           IN  HasKey(data.entries, field.name) =>
                   LET v == Lookup(data.entries, field.name)
                   IN  /\ field.kind = "nested" => Supplies(field.of, v)
                       /\ field.kind = "list" =>
                              /\ IsList(v)
                              /\ \A j \in 1..Len(v.items) : Supplies(field.of, v.items[j])

\* data supplies every field of the dataclass with a value of its kind, at
\* every depth
Supplies(model, data) ==
    /\ SuppliesWhatItGives(model, data)
    /\ \A i \in 1..Len(Fields(model)) : HasKey(data.entries, Fields(model)[i].name)

\* the fields of the dataclass that data does not give
Omitted(model, data) == FieldNames(model) \ {data.entries[i][1] : i \in 1..Len(data.entries)}

\* rec is the record of the dataclass that data describes: same scalars,
\* nested records of the declared dataclasses, lists element by element
RECURSIVE IsRecordOf(_, _, _)
IsRecordOf(model, data, rec) ==
    /\ rec.t = "obj"
    /\ rec.cls = model
    /\ DOMAIN rec.fields = FieldNames(model)
    /\ \A i \in 1..Len(Fields(model)) :
           LET field == Fields(model)[i]
               v == Lookup(data.entries, field.name)
               got == rec.fields[field.name]
           IN  IF field.kind = "scalar" THEN got = v
               ELSE IF field.kind = "nested" THEN IsRecordOf(field.of, v, got)
               ELSE /\ got.t = "list"
                    /\ Len(got.items) = Len(v.items)
                    /\ \A j \in 1..Len(v.items) :
                           IsRecordOf(field.of, v.items[j], got.items[j])

(***************************************************************************)
(* C1.  _from_dict, given a dataclass and a dict that supplies all of its  *)
(* fields, returns an instance whose scalar fields are the input values    *)
(* and whose dataclass fields are the instances made of the nested dicts;  *)
(* the keys that are no field of the dataclass are ignored: the result is  *)
(* the one of the same input without them, and is no failure.              *)
(***************************************************************************)
C1_MaterializesSuppliedFields ==
    (/\ call = "_from_dict"
     /\ args[1] \in Dataclasses
     /\ Supplies(args[1], args[2]))
    => /\ IsRecordOf(args[1], args[2], result)
       /\ result = FromDict(args[1], Di(KnownItems(args[1], args[2].entries)))

\* a Song made of a dict with an unknown key: its artist is an Artist
C1_Witness ==
    /\ call = "_from_dict"
    /\ args[1] = "Song"
    /\ Supplies("Song", args[2])
    /\ HasKey(args[2].entries, unused_future_field)
    /\ result.t = "obj"
    /\ result.fields[artist] =
           Obj("Artist", (id :> Lookup(Lookup(args[2].entries, artist).entries, id))
                         @@ (name :> Lookup(Lookup(args[2].entries, artist).entries, name)))

(***************************************************************************)
(* C2.  A list of records comes out with the length and in the order of    *)
(* the input list: element j of the output is the record of element j of   *)
(* the input, for the list fields of _from_dict and for the operations     *)
(* that answer with a list.                                                *)
(***************************************************************************)
C2_ListsKeepLengthAndOrder ==
    /\ (call = "_from_dict" /\ result.t = "obj") =>
           \A i \in 1..Len(Fields(args[1])) :
               LET field == Fields(args[1])[i]
               IN  (/\ field.kind = "list"
                    /\ HasKey(args[2].entries, field.name)) =>
                       LET v == Lookup(args[2].entries, field.name)
                           got == result.fields[field.name]
                       IN  /\ got.t = "list"
                           /\ Len(got.items) = Len(v.items)
                           /\ \A j \in 1..Len(v.items) :
                                  IsRecordOf(field.of, v.items[j], got.items[j])
    /\ (/\ call \in ListOperations
        /\ result.t = "list"
        /\ IsList(http.outcome.json)) =>
           LET v == http.outcome.json.items
           IN  /\ Len(result.items) = Len(v)
               /\ \A j \in 1..Len(v) :
                      IsRecordOf(ElementModel(call), ConvertKeys(v[j]), result.items[j])

\* a BeatInfo of two different beats
C2_Witness ==
    /\ call = "_from_dict"
    /\ args[1] = "BeatInfo"
    /\ result.t = "obj"
    /\ Len(result.fields[beats].items) = 2
    /\ result.fields[beats].items[1] # result.fields[beats].items[2]

(***************************************************************************)
(* C3.  _convert_keys_to_snake_case.                                       *)
(***************************************************************************)
\* out has the shape of given, each key replaced by its conversion, the
\* scalars unchanged, the lists in their length and order
RECURSIVE SameShapeConverted(_, _)
SameShapeConverted(given, out) ==
    IF IsDict(given)
    THEN /\ IsDict(out)
         /\ Len(out.entries) = Len(given.entries)
         /\ \A i \in 1..Len(given.entries) :
                /\ out.entries[i][1] = ToSnakeCase(given.entries[i][1])
                /\ SameShapeConverted(given.entries[i][2], out.entries[i][2])
    ELSE IF IsList(given)
    THEN /\ IsList(out)
         /\ Len(out.items) = Len(given.items)
         /\ \A i \in 1..Len(given.items) :
                SameShapeConverted(given.items[i], out.items[i])
    ELSE out = given

\* the conversion tells the keys of the dict apart
ConvertsApart(es) ==
    \A i, j \in 1..Len(es) :
        i # j => ToSnakeCase(es[i][1]) # ToSnakeCase(es[j][1])

\* the last item of the dict whose key converts to k
LastConvertingTo(es, k) ==
    CHOOSE i \in 1..Len(es) :
        /\ ToSnakeCase(es[i][1]) = k
        /\ \A j \in (i + 1)..Len(es) : ToSnakeCase(es[j][1]) # k

\* as SameShapeConverted, but a dict holds one item for each converted key,
\* with the value of the last item whose key converts to it
RECURSIVE LastWinsConverted(_, _)
LastWinsConverted(given, out) ==
    IF IsDict(given)
    THEN /\ IsDict(out)
         /\ \A i, j \in 1..Len(out.entries) :
                i # j => out.entries[i][1] # out.entries[j][1]
         /\ {out.entries[i][1] : i \in 1..Len(out.entries)}
                = {ToSnakeCase(given.entries[i][1]) : i \in 1..Len(given.entries)}
         /\ \A j \in 1..Len(out.entries) :
                LastWinsConverted(
                    given.entries[LastConvertingTo(given.entries, out.entries[j][1])][2],
                    out.entries[j][2])
         /\ ConvertsApart(given.entries) =>
                \A i \in 1..Len(given.entries) :
                    out.entries[i][1] = ToSnakeCase(given.entries[i][1])
    ELSE IF IsList(given)
    THEN /\ IsList(out)
         /\ Len(out.items) = Len(given.items)
         /\ \A i \in 1..Len(given.items) :
                LastWinsConverted(given.items[i], out.items[i])
    ELSE out = given

(***************************************************************************)
(* C3, as claimed: the result of _convert_keys_to_snake_case has the shape *)
(* of its argument, every key at every depth replaced by its conversion,   *)
(* every scalar unchanged, every list in its length and order.             *)
(***************************************************************************)
C3_SameShape ==
    call = "_convert_keys_to_snake_case" => SameShapeConverted(args[1], result)

(***************************************************************************)
(* C3, amended: scalars are unchanged and lists keep their length and      *)
(* order; a dict of the result holds one item for each converted key of    *)
(* the input dict, with the converted value of the last input item whose   *)
(* key converts to it; it has the input's keys converted one for one when  *)
(* no two keys of the input dict convert to the same identifier.           *)
(***************************************************************************)
C3_LastKeyWins ==
    call = "_convert_keys_to_snake_case" => LastWinsConverted(args[1], result)

\* a dict in a dict, and two keys that convert to a_b
C3_Witness ==
    /\ call = "_convert_keys_to_snake_case"
    /\ args[1] = Di(<< <<KeyAB, Di(<< <<KeyCD, Sc(1)>> >>)>>,
                       <<KeyA_b, Li(<<Sc(0), Sc(1)>>)>> >>)
    /\ result = Di(<< <<KeyA_b, Li(<<Sc(0), Sc(1)>>)>> >>)

\* a dict in a list in a dict: the key at the second depth is converted
C3_WitnessDeep ==
    /\ call = "_convert_keys_to_snake_case"
    /\ args[1] = Di(<< <<KeyCD, Di(<< <<KeyAB, Sc(1)>> >>)>> >>)
    /\ result = Di(<< <<<<"c","_","d">>, Di(<< <<KeyA_b, Sc(1)>> >>)>> >>)

(***************************************************************************)
(* C4.  _to_snake_case maps the identifiers of the service as listed:      *)
(* startedAt to started_at, createdAt to created_at, revisionId to         *)
(* revision_id, isChorus to is_chorus, and updatedAt, recognizedAt,        *)
(* rmsAmplitude, chorusSegments and repeatSegments to the names of the     *)
(* dataclass fields; no two of them map to the same name.                  *)
(***************************************************************************)
\* two internal names that no dataclass declares: revision_id is the
\* keyword of the map operations
started_at == <<"s","t","a","r","t","e","d","_","a","t">>
revision_id == <<"r","e","v","i","s","i","o","n","_","i","d">>

InternalName(ident) ==
    CASE ident = startedAt -> started_at
      [] ident = createdAt -> created_at
      [] ident = updatedAt -> updated_at
      [] ident = recognizedAt -> recognized_at
      [] ident = revisionId -> revision_id
      [] ident = isChorus -> is_chorus
      [] ident = rmsAmplitude -> rms_amplitude
      [] ident = chorusSegments -> chorus_segments
      [] ident = repeatSegments -> repeat_segments

\* the names of the fields of the dataclasses
DeclaredFieldNames == UNION {FieldNames(model) : model \in Dataclasses}

LowerThenUpper(s, i) ==
    /\ i + 1 <= Len(s)
    /\ IsLowerOrDigit(s[i])
    /\ IsUpper(s[i + 1])

\* a boundary, after position i, where an uppercase letter is followed by
\* an uppercase letter that a lowercase letter follows
UpperThenWord(s, i) ==
    /\ i + 2 <= Len(s)
    /\ IsUpper(s[i])
    /\ IsUpper(s[i + 1])
    /\ IsLower(s[i + 2])

\* a boundary, after position i, where any character is followed by an
\* uppercase letter that a lowercase letter follows
AnyThenWord(s, i) ==
    /\ i + 2 <= Len(s)
    /\ IsUpper(s[i + 1])
    /\ IsLower(s[i + 2])

\* s with one underscore at each boundary of cuts
RECURSIVE JoinedFrom(_, _, _)
JoinedFrom(s, cuts, i) ==
    IF i > Len(s) THEN <<>>
    ELSE IF i \in cuts THEN <<s[i], "_">> \o JoinedFrom(s, cuts, i + 1)
         ELSE <<s[i]>> \o JoinedFrom(s, cuts, i + 1)

SplitAsClaimed(s) ==
    JoinedFrom(s, {i \in 1..Len(s) : LowerThenUpper(s, i) \/ UpperThenWord(s, i)}, 1)

SplitAfterAnyCharacter(s) ==
    JoinedFrom(s, {i \in 1..Len(s) : LowerThenUpper(s, i) \/ AnyThenWord(s, i)}, 1)

\* the lowercase form of a character of the alphabet
Lowercased(c) ==
    CASE c = "A" -> "a"
      [] c = "B" -> "b"
      [] OTHER -> c

(***************************************************************************)
(* C10, as claimed: over the alphabet of lowercase letters, uppercase      *)
(* letters, digits and the underscore, _to_snake_case returns the          *)
(* identifier split where a lowercase letter or a digit is followed by an  *)
(* uppercase letter and where an uppercase letter is followed by an        *)
(* uppercase letter that a lowercase letter follows, joined with one       *)
(* underscore and lowercased: no underscore is inserted anywhere else.     *)
(***************************************************************************)
C10_SplitAsClaimed ==
    (call = "_to_snake_case" /\ args[1] \in BoundedIdentifiers) =>
        result = [i \in 1..Len(SplitAsClaimed(args[1])) |->
                      Lowercased(SplitAsClaimed(args[1])[i])]

(***************************************************************************)
(* C10, amended: the second kind of boundary is where any character, an    *)
(* underscore included, is followed by an uppercase letter that a          *)
(* lowercase letter follows; so an underscore is also inserted after an    *)
(* underscore (_Ab gives __ab).                                            *)
(***************************************************************************)
C10_SplitAfterAnyCharacter ==
    (call = "_to_snake_case" /\ args[1] \in BoundedIdentifiers) =>
        result = [i \in 1..Len(SplitAfterAnyCharacter(args[1])) |->
                      Lowercased(SplitAfterAnyCharacter(args[1])[i])]

\* both kinds of boundary in one identifier, one of them after an underscore
C10_Witness ==
    /\ call = "_to_snake_case"
    /\ args[1] = <<"1", "B", "_", "A", "b">>
    /\ result = <<"1", "_", "b", "_", "_", "a", "b">>

(***************************************************************************)
(* C5, as claimed: whenever the response has a status that is not 2xx,     *)
(* the public operation raises the client's error with the status of the   *)
(* response and, as its message, the text of the response body.            *)
(***************************************************************************)
C5_StatusErrorCarriesStatusAndBody ==
    (/\ call \in PublicOperations
     /\ http.outcome.kind = "response"
     /\ ~(200 <= http.outcome.status /\ http.outcome.status < 300))
    => /\ result.t = "raise"
       /\ result.kind = "SongleApiException"
       /\ result.status_code = http.outcome.status
       /\ result.message = http.outcome.text

(***************************************************************************)
(* C6, as claimed: whenever the transport fails before any response, the   *)
(* public operation raises the client's error with a sentinel status that  *)
(* is no HTTP status code.                                                 *)
(***************************************************************************)
HttpStatusCodes == 100..599

C6_TransportFailureHasSentinelStatus ==
    (call \in PublicOperations /\ http.outcome.kind = "failure")
    => /\ result.t = "raise"
       /\ result.kind = "SongleApiException"
       /\ result.status_code \notin HttpStatusCodes

(***************************************************************************)
(* C7, as claimed: when the response has a 2xx status and its body is no   *)
(* JSON document, the error of the JSON decoder reaches the caller as it   *)
(* is, not as the client's error.                                          *)
(***************************************************************************)
C7_DecodeErrorPropagates ==
    (/\ call \in PublicOperations
     /\ http.outcome.kind = "response"
     /\ 200 <= http.outcome.status /\ http.outcome.status < 300
     /\ http.outcome.json = NotJson)
    => /\ result.t = "raise"
       /\ result.kind = "JSONDecodeError"

(***************************************************************************)
(* C8, as claimed: when the dict omits a field of the dataclass,           *)
(* _from_dict fails with an error that names the field and the dataclass,  *)
(* of a kind that is neither the client's error nor the kind of the error  *)
(* raised for a model that is no dataclass.                                *)
(***************************************************************************)
C8_MissingFieldErrorIsDistinct ==
    (/\ call = "_from_dict"
     /\ args[1] \in Dataclasses
     /\ SuppliesWhatItGives(args[1], args[2])
     /\ Omitted(args[1], args[2]) # {})
    => /\ result.t = "raise"
       /\ result.cls = args[1]
       /\ Omitted(args[1], args[2]) \subseteq result.names
       /\ result.kind # "SongleApiException"
       /\ result.kind # FromDict(NotADataclass, args[2]).kind

(***************************************************************************)
(* C9, as claimed: when a dataclass field is given a value that is no      *)
(* dict, or a list field a value that is no list, the field is left unset  *)
(* and _from_dict still returns an instance.                               *)
(***************************************************************************)
\* a field of the dataclass is given a value of another shape
GivenWrongShape(model, data) ==
    \E i \in 1..Len(Fields(model)) :
        LET field == Fields(model)[i]
        IN  /\ HasKey(data.entries, field.name)
            /\ \/ field.kind = "nested" /\ ~IsDict(Lookup(data.entries, field.name))
               \/ field.kind = "list" /\ ~IsList(Lookup(data.entries, field.name))

C9_WrongShapeIsTolerated ==
    (/\ call = "_from_dict"
     /\ args[1] \in Dataclasses
     /\ IsDict(args[2])
     /\ GivenWrongShape(args[1], args[2]))
    => result.t = "obj"

=============================================================================
